---- MODULE Spec2Model ----
(***************************************************************************)
(* Simulation (src/src/main.py): a named N-body simulation kept in a       *)
(* rebound.Simulation, an identity registry from particle hash to label,   *)
(* and a primary particle.  Python objects are modelled with a heap, so    *)
(* that sharing between a Simulation and its copy is something the model   *)
(* can express: a Simulation object holds the addresses of its             *)
(* rebound.Simulation and of its registry dict.                            *)
(*                                                                         *)
(* Times are binary floating-point numbers of MantBits significant bits,   *)
(* written as integers in units of the smallest spacing; sums, differences *)
(* and quotients round to nearest, ties to even, as IEEE doubles do.       *)
(* Bodies move on a line: position x, velocity vx, mass m.                 *)
(*                                                                         *)
(* The file system is the set of directories and the files by path; the    *)
(* transport layer (src/api.py) keeps its one current Simulation, the      *)
(* global sim, which the model holds at the address "S".                   *)
(***************************************************************************)
EXTENDS Integers, Sequences, FiniteSets, TLC

VARIABLES
    objs,   \* the Simulation objects: name, primary (<<>> for None, else
            \* <<particle>>), and the addresses sim and particles of their
            \* rebound.Simulation and registry dict
    rsim,   \* the rebound.Simulation objects by address: clock t, particles
    regs,   \* the registry dicts by address: particle hash -> label
    last,   \* the last call: method, object, arguments, clock at the call,
            \* the error raised ("" for none) and the value returned
    added,  \* the Simulation objects on which add_primary has succeeded
    nops,   \* calls made so far (counted where a specification bounds them)
    dirs,   \* the directories that exist, by path
    files,  \* the files that exist: path -> the pickle written to it
    resp    \* the transport layer's answer to the last request

vars == <<objs, rsim, regs, last, added, nops, dirs, files, resp>>

-----------------------------------------------------------------------------
(* Bounds *)

\* Most bodies one rebound.Simulation holds.
MaxBodies == 2
\* Significant bits of a floating-point number (53 for a double).
MantBits == 3
\* Positions live on a ring of PosRing cells.
PosRing == 3

-----------------------------------------------------------------------------
(* Inputs *)

Names == {"demo"}
Labels == {"sun", "p1"}
Masses == {1}
\* target: "" stands for None (both are falsy at `if target:`).
Targets == {"", "p1"}
\* **kwargs of add_object: Cartesian components, each optional.
StateKwargs == {[k \in {} |-> 0], [k \in {"x", "vx"} |-> 1]}
\* **kwargs of add_from_orbital_elements: the semi-major axis; without it
\* rebound.Particle raises ValueError.
ElementKwargs == {[k \in {} |-> 0], [k \in {"a"} |-> 1]}
\* **kwargs of update_object.
UpdateKwargs == {[k \in {"x"} |-> 1], [k \in {"vx"} |-> 0]}
IntegrateTimes == {0, 8}
EndTimes == {0, 6, 12}
TimeSteps == {0 - 4, 0, 3}

-----------------------------------------------------------------------------
(* Python values *)

EmptyDict == [k \in {} |-> 0]

\* A dictionary and a list as values (not as rules to compute them).
Dict(f) == f @@ EmptyDict
List(f) == SubSeq(f, 1, Len(f))

Put(f, k, v) == (k :> v) @@ f

Restrict(f, S) == Dict([x \in DOMAIN f \cap S |-> f[x]])

Kw(kwargs, key, default) ==
    IF key \in DOMAIN kwargs THEN kwargs[key] ELSE default

-----------------------------------------------------------------------------
(* Floating point *)

RECURSIVE BitLen(_)
BitLen(n) == IF n = 0 THEN 0 ELSE 1 + BitLen(n \div 2)

RECURSIVE Pow2(_)
Pow2(n) == IF n = 0 THEN 1 ELSE 2 * Pow2(n - 1)

Abs(n) == IF n < 0 THEN 0 - n ELSE n

\* The floating-point number nearest to a/b (a >= 0, b > 0), ties to the
\* even mantissa.
RoundRatio(a, b) ==
    LET e    == IF BitLen(a \div b) > MantBits
                THEN BitLen(a \div b) - MantBits ELSE 0
        ulp  == b * Pow2(e)
        q    == a \div ulp
        rem  == a - q * ulp
        up   == 2 * rem > ulp \/ (2 * rem = ulp /\ q % 2 = 1)
    IN  (IF up THEN q + 1 ELSE q) * Pow2(e)

\* What a double holding the exact value n becomes.
fl(n) == IF n < 0 THEN 0 - RoundRatio(0 - n, 1) ELSE RoundRatio(n, 1)

\* Units of the quotient (stop - start)/step: every floating-point number
\* that is at least 1 is a whole number of 1/QuotUnit.
QuotUnit == Pow2(MantBits - 1)

\* numpy.arange's length: ceil((stop - start)/step) in floating point, and
\* zero when that is not positive.  step is not 0.
arange_len(start, stop, step) ==
    LET d == fl(stop - start)
    IN  IF d = 0 \/ ((d > 0) # (step > 0)) THEN 0
        ELSE IF Abs(d) <= Abs(step) THEN 1
        ELSE (RoundRatio(Abs(d) * QuotUnit, Abs(step)) + QuotUnit - 1)
                 \div QuotUnit

\* numpy.arange(start, stop, step): the first two values are start and
\* start + step, the others start + i*delta with delta their difference.
arange(start, stop, step) ==
    LET next  == fl(start + step)
        delta == fl(next - start)
    IN  List([i \in 1..arange_len(start, stop, step) |->
            IF i = 1 THEN start
            ELSE IF i = 2 THEN next
            ELSE fl(start + fl((i - 1) * delta))])

-----------------------------------------------------------------------------
(* rebound *)

\* rebound.hash(label): the 32-bit hash of a label, here on Labels.
reb_hash(label) == IF label = "sun" THEN 101 ELSE 102

\* rebound.Particle(m=m, **kwargs) with its hash set.
Particle(m, hash, kwargs) ==
    [hash |-> reb_hash(hash), m |-> m,
     x |-> Kw(kwargs, "x", 0) % PosRing, vx |-> Kw(kwargs, "vx", 0)]

\* rebound.Particle(simulation=, primary=, m=m, **kwargs) with its hash
\* set: the orbital elements are converted relative to the primary passed.
ParticleFromElements(primary, m, hash, kwargs) ==
    [hash |-> reb_hash(hash), m |-> m,
     x |-> (primary.x + kwargs["a"]) % PosRing, vx |-> primary.vx]

\* rebound.Simulation.integrate(time) on one rebound.Simulation: the clock
\* becomes time, forwards or backwards, and every body drifts.
reb_integrate(s, time) ==
    [t |-> time,
     particles |-> List([i \in 1..Len(s.particles) |->
        [s.particles[i] EXCEPT
            !.x = (@ + s.particles[i].vx * (time - s.t)) % PosRing]])]

\* rebound.Simulation.add(particle): the particle is copied to the end of
\* the array; hashes are not compared.
reb_add(s, particle) ==
    [s EXCEPT !.particles = Append(@, particle)]

\* The indices sim.particles[label] may resolve to.
Lookup(s, label) ==
    {i \in 1..Len(s.particles) : s.particles[i].hash = reb_hash(label)}

\* The body a query's particles[target] resolves to: one of those that
\* carry the label (0 when there is none to find or no target is given).
Found(s, target) ==
    IF target = "" \/ Lookup(s, target) = {} THEN {0} ELSE Lookup(s, target)

Sample(p) == [position |-> p.x, velocity |-> p.vx]

-----------------------------------------------------------------------------
(* State *)

NoCall ==
    [op |-> "init", obj |-> "S", hash |-> "", raised |-> "", t0 |-> 0,
     time |-> 0, end_time |-> 0, time_step |-> 0, target |-> "",
     kwargs |-> EmptyDict, name |-> "", result |-> EmptyDict]

\* os.path.join('simulations', name, 'sim.bin'); join leaves an empty
\* component out.
join(name) ==
    IF name # "" THEN <<"simulations", name, "sim.bin">>
    ELSE <<"simulations", "sim.bin">>

\* Simulation.path: the file of a named Simulation, '' without a name
Path(name) == IF name # "" THEN join(name) ELSE <<>>

\* The directory a path lies in.
DirOf(p) == SubSeq(p, 1, Len(p) - 1)

\* os.makedirs(os.path.join('simulations', name), exist_ok=True), which
\* __init__ calls when it is given a name
makedirs(d, name) == IF name # "" THEN d \cup {DirOf(Path(name))} ELSE d

\* Simulation.__init__(name): the object
NewSimulation(name, addr) ==
    [name |-> name, path |-> Path(name), sim |-> addr, particles |-> addr,
     primary |-> <<>>]

NewReb == [t |-> 0, particles |-> <<>>]

NoResponse == [route |-> "", data |-> EmptyDict, status |-> ""]

Init ==
    /\ \E name \in Names : objs = [o \in {"S"} |-> NewSimulation(name, "S")]
    /\ rsim = [a \in {"S"} |-> NewReb]
    /\ regs = [a \in {"S"} |-> EmptyDict]
    /\ last = NoCall
    /\ added = {}
    /\ nops = 0
    /\ dirs = makedirs({}, objs["S"].name)
    /\ files = EmptyDict
    /\ resp = NoResponse

\* Simulation.time and Simulation.particles
time(o) == rsim[objs[o].sim].t
particles(o) == rsim[objs[o].sim].particles
registry(o) == regs[objs[o].particles]

Called(op, o) == [NoCall EXCEPT !.op = op, !.obj = o, !.t0 = time(o)]

Raise(call, error) ==
    /\ last' = [call EXCEPT !.raised = error]
    /\ UNCHANGED <<objs, rsim, regs, added, dirs>>

-----------------------------------------------------------------------------
(* Simulation: adding and changing bodies *)

\* add_primary without the test of line 93.
add_primary_unguarded(o, m, hash) ==
    LET call == [Called("add_primary", o) EXCEPT !.hash = hash]
        primary_particle == Particle(m, hash, EmptyDict)
    IN  /\ rsim' = [rsim EXCEPT ![objs[o].sim] = reb_add(@, primary_particle)]
        /\ regs' = [regs EXCEPT ![objs[o].particles] =
                       Put(@, primary_particle.hash, hash)]
        /\ objs' = [objs EXCEPT ![o].primary = <<primary_particle>>]
        /\ added' = added \cup {o}
        /\ last' = call
        /\ UNCHANGED dirs

\* add_primary(m, hash)
add_primary(o, m, hash) ==
    LET call == [Called("add_primary", o) EXCEPT !.hash = hash]
        primary_particle == Particle(m, hash, EmptyDict)
    IN  IF Len(particles(o)) > 0
        THEN Raise(call, "ValueError")
        ELSE /\ rsim' = [rsim EXCEPT ![objs[o].sim] = reb_add(@, primary_particle)]
             /\ regs' = [regs EXCEPT ![objs[o].particles] =
                            Put(@, primary_particle.hash, hash)]
             /\ objs' = [objs EXCEPT ![o].primary = <<primary_particle>>]
             /\ added' = added \cup {o}
             /\ last' = call
             /\ UNCHANGED dirs

\* add_object(m, hash, **kwargs)
add_object(o, m, hash, kwargs) ==
    LET call == [Called("add_object", o) EXCEPT !.hash = hash]
        particle == Particle(m, hash, kwargs)
    IN  /\ Len(particles(o)) < MaxBodies
        /\ rsim' = [rsim EXCEPT ![objs[o].sim] = reb_add(@, particle)]
        /\ regs' = [regs EXCEPT ![objs[o].particles] = Put(@, particle.hash, hash)]
        /\ last' = call
        /\ UNCHANGED <<objs, added, dirs>>

\* add_from_orbital_elements without the test of line 128: rebound then
\* takes the origin for the primary when none is set.
add_from_orbital_elements_unguarded(o, m, hash, kwargs) ==
    LET call == [Called("add_from_orbital_elements", o) EXCEPT !.hash = hash]
        primary == IF objs[o].primary = <<>>
                   THEN Particle(m, hash, EmptyDict) ELSE objs[o].primary[1]
    IN  IF "a" \notin DOMAIN kwargs
        THEN Raise(call, "ValueError")
        ELSE LET particle == ParticleFromElements(primary, m, hash, kwargs)
             IN  /\ Len(particles(o)) < MaxBodies
                 /\ rsim' = [rsim EXCEPT ![objs[o].sim] = reb_add(@, particle)]
                 /\ regs' = [regs EXCEPT ![objs[o].particles] =
                                Put(@, particle.hash, hash)]
                 /\ last' = call
                 /\ UNCHANGED <<objs, added, dirs>>

\* add_from_orbital_elements(m, hash, **kwargs)
add_from_orbital_elements(o, m, hash, kwargs) ==
    LET call == [Called("add_from_orbital_elements", o) EXCEPT !.hash = hash]
    IN  IF objs[o].primary = <<>>
        THEN Raise(call, "ValueError")
        ELSE IF "a" \notin DOMAIN kwargs
        THEN Raise(call, "ValueError")
        ELSE LET particle ==
                    ParticleFromElements(objs[o].primary[1], m, hash, kwargs)
             IN  /\ Len(particles(o)) < MaxBodies
                 /\ rsim' = [rsim EXCEPT ![objs[o].sim] = reb_add(@, particle)]
                 /\ regs' = [regs EXCEPT ![objs[o].particles] =
                                Put(@, particle.hash, hash)]
                 /\ last' = call
                 /\ UNCHANGED <<objs, added, dirs>>

\* setattr that builds the particle anew from the keywords given, so that
\* a field that is not given falls back to 0.
SetAttrs_rebuilt(p, kwargs) ==
    [hash |-> p.hash, m |-> Kw(kwargs, "m", 0),
     x |-> Kw(kwargs, "x", 0) % PosRing, vx |-> Kw(kwargs, "vx", 0)]

\* setattr(particle, key, value) for every keyword given
SetAttrs(p, kwargs) ==
    [p EXCEPT !.m = Kw(kwargs, "m", @),
              !.x = Kw(kwargs, "x", @) % PosRing,
              !.vx = Kw(kwargs, "vx", @)]

\* update_object(hash, **kwargs)
update_object(o, hash, kwargs) ==
    LET call == [Called("update_object", o) EXCEPT
                    !.hash = hash, !.kwargs = kwargs]
        found == Lookup(rsim[objs[o].sim], hash)
    IN  IF found = {}
        THEN Raise(call, "ParticleNotFound")
        ELSE \E i \in found :
                /\ rsim' = [rsim EXCEPT ![objs[o].sim].particles[i] =
                                SetAttrs(@, kwargs)]
                /\ last' = call
                /\ UNCHANGED <<objs, regs, added, dirs>>

-----------------------------------------------------------------------------
(* Simulation: integrating *)

\* The dictionary integrate builds: label -> {time -> position, velocity};
\* a later body with the label of an earlier one replaces its entry.
StateDict(s, reg) ==
    LET name(i) == reg[s.particles[i].hash]
        lastOf(n) == CHOOSE i \in 1..Len(s.particles) :
                        /\ name(i) = n
                        /\ \A j \in 1..Len(s.particles) : name(j) = n => j <= i
    IN  Dict([n \in {name(i) : i \in 1..Len(s.particles)} |->
            s.t :> Sample(s.particles[lastOf(n)])])

\* Simulation.integrate(time) on the object self, in the heap h (the
\* rebound.Simulation objects by address): the heap after it, and the
\* dictionary returned.
integrate_in(self, h, reg, tm) ==
    IF Len(h[self.sim].particles) = 0
    THEN [raised |-> "NoParticles", rsim |-> h, result |-> EmptyDict]
    ELSE LET s == reb_integrate(h[self.sim], tm)
         IN  [raised |-> "", rsim |-> [h EXCEPT ![self.sim] = s],
              result |-> StateDict(s, reg)]

\* integrate(time)
integrate(o, tm) ==
    LET call == [Called("integrate", o) EXCEPT !.time = tm]
        r == integrate_in(objs[o], rsim, registry(o), tm)
    IN  IF r.raised # ""
        THEN Raise(call, r.raised)
        ELSE /\ rsim' = r.rsim
             /\ last' = [call EXCEPT !.result = r.result]
             /\ UNCHANGED <<objs, regs, added, dirs>>

-----------------------------------------------------------------------------
(* Simulation: copies and queries *)

\* copy() without the .copy() of line 59: both objects hold one
\* rebound.Simulation.
copy_shared_sim(self, fresh) ==
    [obj  |-> [NewSimulation(self.name, fresh) EXCEPT !.sim = self.sim],
     rsim |-> rsim,
     regs |-> Put(regs, fresh, regs[self.particles])]

\* copy() without the .copy() of line 60: both objects hold one registry.
copy_shared_registry(self, fresh) ==
    [obj  |-> [NewSimulation(self.name, fresh) EXCEPT !.particles = self.particles],
     rsim |-> Put(rsim, fresh, rsim[self.sim]),
     regs |-> regs]

\* copy(): the new Simulation object, placed at the address fresh, and the
\* heap with its rebound.Simulation and its registry in it.  __init__
\* leaves the new object's primary unset, and copy does not set it.
copy(self, fresh) ==
    [obj  |-> NewSimulation(self.name, fresh),
     rsim |-> Put(rsim, fresh, rsim[self.sim]),
     regs |-> Put(regs, fresh, regs[self.particles])]

\* What the Simulation objects still reach when a call returns.
Collect(h, kind) == Restrict(h, {objs[x][kind] : x \in DOMAIN objs})

Return(call, h, g) ==
    /\ last' = call
    /\ rsim' = Collect(h, "sim")
    /\ regs' = Collect(g, "particles")
    /\ dirs' = makedirs(dirs, objs[call.obj].name)
    /\ UNCHANGED <<objs, added>>

\* get_prediction(time, target); k is the body particles[target] finds.
get_prediction(o, tm, target, k) ==
    LET call == [Called("get_prediction", o) EXCEPT !.time = tm, !.target = target]
        c == copy(objs[o], "T")
        prediction_sim == c.obj
        reg == c.regs[prediction_sim.particles]
        r == integrate_in(prediction_sim, c.rsim, reg, tm)
        s == r.rsim[prediction_sim.sim]
    IN  IF r.raised # ""
        THEN Return([call EXCEPT !.raised = r.raised], r.rsim, c.regs)
        ELSE IF target # ""
        THEN IF Lookup(s, target) = {}
             THEN Return([call EXCEPT !.raised = "ParticleNotFound"], r.rsim, c.regs)
             ELSE Return([call EXCEPT !.result =
                                target :> (s.t :> Sample(s.particles[k]))],
                         r.rsim, c.regs)
        ELSE Return([call EXCEPT !.result = StateDict(s, reg)], r.rsim, c.regs)

\* result[name][time] = ... for every name of d
Record(res, d) ==
    Dict([n \in DOMAIN res \cup DOMAIN d |->
            IF n \notin DOMAIN d THEN res[n]
            ELSE IF n \notin DOMAIN res THEN d[n]
            ELSE d[n] @@ res[n]])

\* The loop of get_trajectory from its i-th time on: the heap and the
\* result when it ends, and the error that ended it.
RECURSIVE trajectory_loop(_, _, _, _, _, _, _, _)
trajectory_loop(self, h, reg, times, i, target, k, res) ==
    IF i > Len(times)
    THEN [raised |-> "", rsim |-> h, result |-> res]
    ELSE LET r == integrate_in(self, h, reg, times[i])
             s == r.rsim[self.sim]
         IN  IF r.raised # ""
             THEN [raised |-> r.raised, rsim |-> r.rsim, result |-> res]
             ELSE IF target # ""
             THEN IF Lookup(s, target) = {}
                  THEN [raised |-> "ParticleNotFound", rsim |-> r.rsim,
                        result |-> res]
                  ELSE trajectory_loop(self, r.rsim, reg, times, i + 1, target, k,
                          Record(res, target :> (s.t :> Sample(s.particles[k]))))
             ELSE trajectory_loop(self, r.rsim, reg, times, i + 1, target, k,
                          Record(res, r.result))

\* get_trajectory(end_time, time_step, target); k is the body
\* particles[target] finds.  numpy.arange raises on a step of 0.
get_trajectory(o, end_time, time_step, target, k) ==
    LET call == [Called("get_trajectory", o) EXCEPT
                    !.end_time = end_time, !.time_step = time_step,
                    !.target = target]
        c == copy(objs[o], "T")
        trajectory_sim == c.obj
        s0 == c.rsim[trajectory_sim.sim]
        reg == c.regs[trajectory_sim.particles]
    IN  IF time_step = 0
        THEN Return([call EXCEPT !.raised = "ZeroDivisionError"], c.rsim, c.regs)
        ELSE LET r == trajectory_loop(trajectory_sim, c.rsim, reg,
                            arange(s0.t, end_time, time_step), 1, target, k,
                            EmptyDict)
             IN  Return([call EXCEPT !.raised = r.raised, !.result = r.result],
                        r.rsim, c.regs)

\* A caller keeps a copy of the Simulation o.
Copy(o) ==
    /\ "C" \notin DOMAIN objs
    /\ LET c == copy(objs[o], "C")
       IN  /\ objs' = Put(objs, "C", c.obj)
           /\ rsim' = c.rsim
           /\ regs' = c.regs
    /\ last' = Called("copy", o)
    /\ dirs' = makedirs(dirs, objs[o].name)
    /\ UNCHANGED added

-----------------------------------------------------------------------------
(* Simulation: persistence *)

\* pickle.dump that leaves the primary out of the bytes.
pickle_dump_without_primary(self, h, g) ==
    [name |-> self.name, path |-> self.path, _sim |-> h[self.sim],
     _particles |-> g[self.particles], _primary |-> <<>>]

\* pickle.dump(self, f): the bytes hold the attributes of the object and,
\* by value, the rebound.Simulation, the registry and the primary it
\* refers to.
pickle_dump(self, h, g) ==
    [name |-> self.name, path |-> self.path, _sim |-> h[self.sim],
     _particles |-> g[self.particles], _primary |-> self.primary]

\* pickle.load(f): the object the bytes hold, with its rebound.Simulation
\* and its registry built anew at the address fresh.
pickle_load(data, fresh) ==
    [obj  |-> [name |-> data.name, path |-> data.path, sim |-> fresh,
               particles |-> fresh, primary |-> data._primary],
     rsim |-> data._sim,
     regs |-> data._particles]

\* open that creates the file whatever the path is.
Writable_anywhere(d, p) == TRUE

\* open(path, 'wb') succeeds on a path in a directory that exists; the
\* path '' names no file.
Writable(d, p) == p # <<>> /\ DirOf(p) \in d

\* The files after self.save(), with the directories d and the heap h, g.
saved(fs, d, self, h, g) ==
    IF Writable(d, self.path)
    THEN Put(fs, self.path, pickle_dump(self, h, g))
    ELSE fs

\* Simulation.load that builds a new Simulation of the name when there is
\* no file to read.
load_or_new(name, fresh) ==
    LET call == [NoCall EXCEPT !.op = "load", !.name = name, !.obj = fresh]
        l == IF join(name) \in DOMAIN files
             THEN pickle_load(files[join(name)], fresh)
             ELSE [obj |-> NewSimulation(name, fresh), rsim |-> NewReb,
                   regs |-> EmptyDict]
    IN  /\ objs' = Put(objs, fresh, l.obj)
        /\ rsim' = Put(rsim, fresh, l.rsim)
        /\ regs' = Put(regs, fresh, l.regs)
        /\ added' = IF l.obj.primary # <<>>
                    THEN added \cup {fresh} ELSE added \ {fresh}
        /\ last' = call
        /\ dirs' = makedirs(dirs, name)
        /\ UNCHANGED files

\* save()
save(o) ==
    LET call == Called("save", o)
    IN  IF ~Writable(dirs, objs[o].path)
        THEN Raise(call, "FileNotFoundError") /\ UNCHANGED files
        ELSE /\ files' = saved(files, dirs, objs[o], rsim, regs)
             /\ last' = call
             /\ UNCHANGED <<objs, rsim, regs, added, dirs>>

\* Simulation.load(name), whose result the caller keeps at the address
\* fresh.
load(name, fresh) ==
    LET call == [NoCall EXCEPT !.op = "load", !.name = name]
    IN  IF join(name) \notin DOMAIN files
        THEN Raise(call, "FileNotFoundError") /\ UNCHANGED files
        ELSE LET l == pickle_load(files[join(name)], fresh)
             IN  /\ objs' = Put(objs, fresh, l.obj)
                 /\ rsim' = Put(rsim, fresh, l.rsim)
                 /\ regs' = Put(regs, fresh, l.regs)
                 /\ added' = IF l.obj.primary # <<>>
                             THEN added \cup {fresh} ELSE added \ {fresh}
                 /\ last' = [call EXCEPT !.obj = fresh]
                 /\ UNCHANGED <<dirs, files>>

-----------------------------------------------------------------------------
(* Transport layer (src/api.py): the routes, on the global sim at "S".    *)
(* The values of a request have the types the routes ask for.             *)

Response(route, data, status) == [route |-> route, data |-> data, status |-> status]

\* {'status': 'error', ...} before the core is called
Refuse(route, data) ==
    /\ resp' = Response(route, data, "error")
    /\ UNCHANGED <<objs, rsim, regs, last, added, dirs, files>>

\* A test of sim.name that never holds.
Unnamed_never(self) == FALSE

\* sim.name == ''
Unnamed(self) == self.name = ""

\* The end of a route that answers and leaves sim.save() out.
SaveSkipped(route, data) ==
    /\ files' = files
    /\ resp' = Response(route, data, IF last'.raised # "" THEN "error" ELSE "success")

\* The end of get_trajectory_route: the answer, and no sim.save().
Respond(route, data) ==
    /\ files' = files
    /\ resp' = Response(route, data, IF last'.raised # "" THEN "error" ELSE "success")

\* The end of a route that has called the core: sim.save() when the call
\* has returned, and the answer.
SaveAndRespond(route, data) ==
    IF last'.raised # ""
    THEN /\ files' = files
         /\ resp' = Response(route, data, "error")
    ELSE /\ files' = saved(files, dirs', objs'["S"], rsim', regs')
         /\ resp' = Response(route, data,
                        IF Writable(dirs', objs'["S"].path)
                        THEN "success" ELSE "error")

\* The keywords of a request beside m and hash.
Rest(data) == Restrict(data, DOMAIN data \ {"m", "hash"})

\* create_route
create_route(data) ==
    IF "name" \notin DOMAIN data
    THEN Refuse("create", data)
    ELSE IF data["name"] = ""
    THEN Refuse("create", data)
    ELSE LET new == NewSimulation(data["name"], "S")
         IN  /\ objs' = Put(objs, "S", new)
             /\ rsim' = Put(rsim, "S", NewReb)
             /\ regs' = Put(regs, "S", EmptyDict)
             /\ dirs' = makedirs(dirs, data["name"])
             /\ files' = saved(files, dirs', new, rsim', regs')
             /\ added' = added \ {"S"}
             /\ last' = [NoCall EXCEPT !.op = "save", !.name = data["name"],
                            !.raised = IF Writable(dirs', new.path)
                                       THEN "" ELSE "FileNotFoundError"]
             /\ resp' = Response("create", data,
                            IF last'.raised # "" THEN "error" ELSE "success")

\* load_route
load_route(data) ==
    IF "name" \notin DOMAIN data
    THEN Refuse("load", data)
    ELSE IF data["name"] = ""
    THEN Refuse("load", data)
    ELSE /\ load(data["name"], "S")
         /\ resp' = Response("load", data,
                        IF last'.raised # "" THEN "error" ELSE "success")

\* add_primary_route; add_primary(**data) takes m and hash and nothing
\* else.
add_primary_route(data) ==
    IF ~({"m", "hash"} \subseteq DOMAIN data)
    THEN Refuse("add_primary", data)
    ELSE IF Unnamed(objs["S"])
    THEN Refuse("add_primary", data)
    ELSE IF DOMAIN Rest(data) # {}
    THEN Refuse("add_primary", data)
    ELSE /\ add_primary("S", data["m"], data["hash"])
         /\ SaveAndRespond("add_primary", data)

\* add_object_route
add_object_route(data) ==
    IF ~({"m", "hash"} \subseteq DOMAIN data)
    THEN Refuse("add_object", data)
    ELSE IF Unnamed(objs["S"])
    THEN Refuse("add_object", data)
    ELSE /\ add_object("S", data["m"], data["hash"], Rest(data))
         /\ SaveAndRespond("add_object", data)

\* add_from_orbital_elements_route
add_from_orbital_elements_route(data) ==
    IF ~({"m", "hash"} \subseteq DOMAIN data)
    THEN Refuse("add_from_orbital_elements", data)
    ELSE IF Unnamed(objs["S"])
    THEN Refuse("add_from_orbital_elements", data)
    ELSE /\ add_from_orbital_elements("S", data["m"], data["hash"], Rest(data))
         /\ SaveAndRespond("add_from_orbital_elements", data)

\* integrate_route
integrate_route(data) ==
    IF "time" \notin DOMAIN data
    THEN Refuse("integrate", data)
    ELSE IF Unnamed(objs["S"])
    THEN Refuse("integrate", data)
    ELSE /\ integrate("S", data["time"])
         /\ SaveAndRespond("integrate", data)

\* get_trajectory_route; k is the body particles[target] finds.
get_trajectory_route(data, k) ==
    IF ~({"end_time", "time_step"} \subseteq DOMAIN data)
    THEN Refuse("get_trajectory", data)
    ELSE IF Unnamed(objs["S"])
    THEN Refuse("get_trajectory", data)
    ELSE /\ get_trajectory("S", data["end_time"], data["time_step"],
                           Kw(data, "target", ""), k)
         /\ Respond("get_trajectory", data)

\* sim = Simulation() when the module is loaded: the server starts again,
\* on the files the earlier run has left.
Restart ==
    /\ objs' = [o \in {"S"} |-> NewSimulation("", "S")]
    /\ rsim' = [a \in {"S"} |-> NewReb]
    /\ regs' = [a \in {"S"} |-> EmptyDict]
    /\ added' = {}
    /\ last' = NoCall
    /\ resp' = NoResponse
    /\ UNCHANGED <<dirs, files>>

-----------------------------------------------------------------------------
(* Specifications *)

AddPrimary == \E o \in DOMAIN objs, m \in Masses, hash \in Labels :
                add_primary(o, m, hash)

AddObject == \E o \in DOMAIN objs, m \in Masses, hash \in Labels,
                kwargs \in StateKwargs : add_object(o, m, hash, kwargs)

AddFromOrbitalElements ==
    \E o \in DOMAIN objs, m \in Masses, hash \in Labels,
       kwargs \in ElementKwargs : add_from_orbital_elements(o, m, hash, kwargs)

UpdateObject == \E o \in DOMAIN objs, hash \in Labels, kwargs \in UpdateKwargs :
                    update_object(o, hash, kwargs)

Integrate == \E o \in DOMAIN objs, tm \in IntegrateTimes : integrate(o, tm)

GetPrediction ==
    \E o \in DOMAIN objs, tm \in IntegrateTimes, target \in Targets :
        \E k \in Found(rsim[objs[o].sim], target) :
            get_prediction(o, tm, target, k)

GetTrajectory ==
    \E o \in DOMAIN objs, end_time \in EndTimes, time_step \in TimeSteps,
       target \in Targets :
        \E k \in Found(rsim[objs[o].sim], target) :
            get_trajectory(o, end_time, time_step, target, k)

\* One live Simulation: every operation of the class on it.
Next ==
    \/ AddPrimary /\ UNCHANGED <<nops, files, resp>>
    \/ AddObject /\ UNCHANGED <<nops, files, resp>>
    \/ AddFromOrbitalElements /\ UNCHANGED <<nops, files, resp>>
    \/ UpdateObject /\ UNCHANGED <<nops, files, resp>>
    \/ Integrate /\ UNCHANGED <<nops, files, resp>>
    \/ GetPrediction /\ UNCHANGED <<nops, files, resp>>
    \/ GetTrajectory /\ UNCHANGED <<nops, files, resp>>

Spec == Init /\ [][Next]_vars

\* A Simulation and a copy of it, changed by at most MaxOps calls in all.
MaxOps == 5

Budget == nops < MaxOps /\ nops' = nops + 1

NextCopy ==
    \/ Copy("S") /\ Budget /\ UNCHANGED <<files, resp>>
    \/ AddPrimary /\ Budget /\ UNCHANGED <<files, resp>>
    \/ AddObject /\ Budget /\ UNCHANGED <<files, resp>>
    \/ AddFromOrbitalElements /\ Budget /\ UNCHANGED <<files, resp>>
    \/ UpdateObject /\ Budget /\ UNCHANGED <<files, resp>>
    \/ Integrate /\ Budget /\ UNCHANGED <<files, resp>>

SpecCopy == Init /\ [][NextCopy]_vars

\* A Simulation, with or without a name, that is changed, saved and
\* loaded again, by at most MaxOps calls in all.
StoreNames == {"", "demo"}

InitStore ==
    /\ \E name \in StoreNames : objs = [o \in {"S"} |-> NewSimulation(name, "S")]
    /\ rsim = [a \in {"S"} |-> NewReb]
    /\ regs = [a \in {"S"} |-> EmptyDict]
    /\ last = NoCall
    /\ added = {}
    /\ nops = 0
    /\ dirs = makedirs({}, objs["S"].name)
    /\ files = EmptyDict
    /\ resp = NoResponse

Save == \E o \in DOMAIN objs : save(o)

Load == \E name \in StoreNames \ {""} : load(name, "L")

NextStore ==
    \/ Save /\ Budget /\ UNCHANGED resp
    \/ Load /\ Budget /\ UNCHANGED resp
    \/ AddPrimary /\ Budget /\ UNCHANGED <<files, resp>>
    \/ AddObject /\ Budget /\ UNCHANGED <<files, resp>>
    \/ AddFromOrbitalElements /\ Budget /\ UNCHANGED <<files, resp>>
    \/ UpdateObject /\ Budget /\ UNCHANGED <<files, resp>>
    \/ Integrate /\ Budget /\ UNCHANGED <<files, resp>>

SpecStore == InitStore /\ [][NextStore]_vars

\* The transport layer, answering at most MaxRequests requests.
MaxRequests == 4

ApiNames == {"demo", "other"}

NameRequests == {"name" :> n : n \in ApiNames \cup {""}}

AddRequests(K) ==
    {("m" :> m) @@ ("hash" :> h) @@ k : m \in Masses, h \in Labels, k \in K}
        \cup {"hash" :> h : h \in Labels}

IntegrateRequests == {"time" :> t : t \in IntegrateTimes} \cup {EmptyDict}

TrajectoryRequests ==
    {("end_time" :> e) @@ ("time_step" :> h) @@ t :
        e \in {x \in EndTimes : x > 0}, h \in {x \in TimeSteps : x >= 0},
        t \in {EmptyDict} \cup {"target" :> x : x \in Targets \ {""}}}
        \cup {EmptyDict}

\* The module has just been loaded; the directory simulations may hold
\* directories that a Simulation(name) has made before.
InitApi ==
    /\ objs = [o \in {"S"} |-> NewSimulation("", "S")]
    /\ rsim = [a \in {"S"} |-> NewReb]
    /\ regs = [a \in {"S"} |-> EmptyDict]
    /\ last = NoCall
    /\ added = {}
    /\ nops = 0
    /\ dirs \in SUBSET {DirOf(join(n)) : n \in ApiNames}
    /\ files = EmptyDict
    /\ resp = NoResponse

Received == nops < MaxRequests /\ nops' = nops + 1

CreateRoute == \E data \in NameRequests : create_route(data)

LoadRoute == \E data \in NameRequests : load_route(data)

AddPrimaryRoute == \E data \in AddRequests(StateKwargs) : add_primary_route(data)

AddObjectRoute == \E data \in AddRequests(StateKwargs) : add_object_route(data)

AddFromOrbitalElementsRoute ==
    \E data \in AddRequests(ElementKwargs) : add_from_orbital_elements_route(data)

IntegrateRoute == \E data \in IntegrateRequests : integrate_route(data)

GetTrajectoryRoute ==
    \E data \in TrajectoryRequests :
        \E k \in Found(rsim[objs["S"].sim], Kw(data, "target", "")) :
            get_trajectory_route(data, k)

NextApi ==
    \/ CreateRoute /\ Received
    \/ LoadRoute /\ Received
    \/ AddPrimaryRoute /\ Received
    \/ AddObjectRoute /\ Received
    \/ AddFromOrbitalElementsRoute /\ Received
    \/ IntegrateRoute /\ Received
    \/ GetTrajectoryRoute /\ Received
    \/ Restart /\ Received

SpecApi == InitApi /\ [][NextApi]_vars

-----------------------------------------------------------------------------
(* Properties *)

Queries == {"get_prediction", "get_trajectory"}
Adds == {"add_primary", "add_object", "add_from_orbital_elements"}
Mutators == Adds \cup {"update_object", "integrate"}

\* What a caller sees of the Simulation o.
Clock(o) == time(o)
Bodies(o) == particles(o)
Observed(o) == [clock |-> time(o), bodies |-> particles(o), registry |-> registry(o)]

\* C1 (non-destruction): a call of get_prediction or get_trajectory on a
\* Simulation, whether it returns or raises, leaves that Simulation's clock
\* and the state of every one of its bodies as they were.
C1_NonDestruction ==
    [][\A o \in DOMAIN objs :
        (last'.op \in Queries /\ last'.obj = o)
            => /\ o \in DOMAIN objs'
               /\ Clock(o)' = Clock(o)
               /\ Bodies(o)' = Bodies(o)]_vars

\* C1's case: a trajectory was returned whose samples lie at other times
\* than the clock of the Simulation asked, for a body that moves.
C1_Witness ==
    /\ last.op = "get_trajectory"
    /\ last.raised = ""
    /\ \E n \in DOMAIN last.result : \E t \in DOMAIN last.result[n] :
            /\ t # time(last.obj)
            /\ last.result[n][t].velocity # 0
            /\ \E i \in 1..Len(particles(last.obj)) :
                  last.result[n][t].position # particles(last.obj)[i].x

\* C2 (copy isolation): once a copy exists, an add_primary, add_object,
\* add_from_orbital_elements, update_object or integrate call on either of
\* the two Simulations leaves clock, bodies and registry of the other one
\* as they were.
C2_CopyIsolation ==
    [][\A o \in DOMAIN objs : \A p \in DOMAIN objs \ {o} :
        (last'.op \in Mutators /\ last'.obj = o)
            => Observed(p)' = Observed(p)]_vars

\* C2's case: after the copy was made, the source was integrated and the
\* copy got a body the source does not have.
C2_Witness ==
    /\ "C" \in DOMAIN objs
    /\ last.op = "add_object" /\ last.obj = "C" /\ last.raised = ""
    /\ time("S") # time("C")
    /\ Len(particles("C")) > Len(particles("S"))
    /\ DOMAIN registry("C") # DOMAIN registry("S")

\* C3 (primary-once): on a Simulation on which add_primary has succeeded, a
\* further add_primary raises and leaves the body count, the registry and
\* the primary as they were.
C3_PrimaryOnce ==
    [][\A o \in DOMAIN objs :
        (o \in added /\ last'.op = "add_primary" /\ last'.obj = o)
            => /\ last'.raised = "ValueError"
               /\ Len(particles(o))' = Len(particles(o))
               /\ registry(o)' = registry(o)
               /\ objs'[o].primary = objs[o].primary]_vars

\* C3's case: a second add_primary was called on a Simulation with a
\* primary and another body, and it raised.
C3_Witness ==
    /\ last.op = "add_primary"
    /\ last.obj \in added
    /\ last.raised = "ValueError"
    /\ Len(particles(last.obj)) > 1

\* C4 (elements require a primary): on a Simulation on which no add_primary
\* has succeeded, add_from_orbital_elements raises, adds no body and leaves
\* the rebound.Simulation and the registry as they were.
C4_ElementsRequirePrimary ==
    [][\A o \in DOMAIN objs :
        (o \notin added /\ last'.op = "add_from_orbital_elements" /\ last'.obj = o)
            => /\ last'.raised = "ValueError"
               /\ rsim'[objs'[o].sim] = rsim[objs[o].sim]
               /\ registry(o)' = registry(o)]_vars

\* C4's case: add_from_orbital_elements, with elements rebound accepts, was
\* called on a Simulation that holds a body but no primary, and it raised.
C4_Witness ==
    /\ last.op = "add_from_orbital_elements"
    /\ last.obj \notin added
    /\ last.raised = "ValueError"
    /\ Len(particles(last.obj)) > 0

Label(o, i) == registry(o)[particles(o)[i].hash]

\* C5 (first body is the primary): whenever the catalog of a Simulation is
\* not empty, its primary is set and is the first body that was added.
C5_FirstBodyIsPrimary ==
    \A o \in DOMAIN objs :
        Len(particles(o)) > 0
            => /\ objs[o].primary # <<>>
               /\ objs[o].primary[1].hash = particles(o)[1].hash

\* C6 (registry/catalog sync): the registry has as many entries as the
\* catalog has bodies, and the handle of every body is a key of it.
C6_RegistryCatalogSync ==
    \A o \in DOMAIN objs :
        /\ Cardinality(DOMAIN registry(o)) = Len(particles(o))
        /\ \A i \in 1..Len(particles(o)) :
              particles(o)[i].hash \in DOMAIN registry(o)

UniqueLabels(o) ==
    \A i, j \in 1..Len(particles(o)) : i # j => Label(o, i) # Label(o, j)

Registered(o, label) == \E h \in DOMAIN registry(o) : registry(o)[h] = label

\* C7 (label uniqueness): no two bodies of a Simulation carry one label,
\* and an add_primary, add_object or add_from_orbital_elements call whose
\* label is registered already raises and leaves catalog and registry as
\* they were.
C7_LabelUniqueness ==
    [][\A o \in DOMAIN objs :
        /\ UniqueLabels(o)'
        /\ (last'.op \in Adds /\ last'.obj = o /\ Registered(o, last'.hash))
              => /\ last'.raised # ""
                 /\ particles(o)' = particles(o)
                 /\ registry(o)' = registry(o)]_vars

\* The times t0, t0 + h, t0 + 2h, ... below T, each as the floating-point
\* number that holds it.
StepTimes(t0, T, h) ==
    {fl(t0 + i * h) : i \in {j \in 0..(T - t0) : t0 + j * h < T}}

\* C8 (trajectory sample times): get_trajectory(T, h) without target, on a
\* Simulation with a body, h > 0 and T above the clock t0, returns for
\* every body one sample at each of the times t0, t0 + h, t0 + 2h, ...
\* below T; so the first sample is at t0 and every sample time is in
\* [t0, T).
C8_TrajectorySampleTimes ==
    (/\ last.op = "get_trajectory"
     /\ last.target = ""
     /\ last.time_step > 0
     /\ last.end_time > last.t0
     /\ Len(particles(last.obj)) >= 1)
        => /\ last.raised = ""
           /\ \A i \in 1..Len(particles(last.obj)) :
                /\ Label(last.obj, i) \in DOMAIN last.result
                /\ LET times == DOMAIN last.result[Label(last.obj, i)]
                   IN  /\ times = StepTimes(last.t0, last.end_time, last.time_step)
                       /\ last.t0 \in times
                       /\ \A t \in times : last.t0 <= t /\ t < last.end_time

\* C9 (degenerate trajectory): get_trajectory(T, h) with h <= 0 or with T
\* not above the clock returns, without raising, a history with no sample.
C9_DegenerateTrajectory ==
    (/\ last.op = "get_trajectory"
     /\ (last.time_step <= 0 \/ last.end_time <= last.t0))
        => /\ last.raised = ""
           /\ DOMAIN last.result = {}

\* C10 (clock monotonicity): no operation on a Simulation moves its clock
\* backwards.
C10_ClockMonotone ==
    [][\A o \in DOMAIN objs : time(o)' >= time(o)]_vars

\* C11 (elements use the current primary state): the primary a Simulation
\* stores, which add_from_orbital_elements hands to rebound, has the state
\* of the primary body in the catalog (the body add_primary put first).
C11_PrimaryAgreesWithCatalog ==
    \A o \in DOMAIN objs :
        objs[o].primary # <<>>
            => /\ Len(particles(o)) > 0
               /\ objs[o].primary[1] = particles(o)[1]

\* C15 (update_object frame): update_object with a registered label
\* returns and changes one body that carries the label, in the fields
\* given and to the values given; with a label that is not registered it
\* raises and changes no body.  Either way the clock, the registry, the
\* number of bodies and the primary stay as they were.
C15_UpdateFrame ==
    [][\A o \in DOMAIN objs :
        (last'.op = "update_object" /\ last'.obj = o)
            => /\ time(o)' = time(o)
               /\ registry(o)' = registry(o)
               /\ Len(particles(o))' = Len(particles(o))
               /\ objs'[o] = objs[o]
               /\ IF Registered(o, last'.hash)
                  THEN /\ last'.raised = ""
                       /\ \E i \in 1..Len(particles(o)) :
                            /\ Label(o, i) = last'.hash
                            /\ \A j \in 1..Len(particles(o)) \ {i} :
                                  particles(o)'[j] = particles(o)[j]
                            /\ \A f \in DOMAIN particles(o)[i] :
                                  particles(o)'[i][f] =
                                     IF f \in DOMAIN last'.kwargs
                                     THEN last'.kwargs[f]
                                     ELSE particles(o)[i][f]
                  ELSE /\ last'.raised # ""
                       /\ particles(o)' = particles(o)]_vars

\* C15's case: update_object has set the position of one of two bodies,
\* a body that has a velocity, which it keeps.
C15_Witness ==
    /\ last.op = "update_object"
    /\ last.raised = ""
    /\ DOMAIN last.kwargs = {"x"}
    /\ Len(particles(last.obj)) = 2
    /\ \E i \in 1..2 :
          /\ Label(last.obj, i) = last.hash
          /\ particles(last.obj)[i].x = last.kwargs["x"]
          /\ particles(last.obj)[i].vx # 0

\* C16 (prediction result shape): get_prediction(time, target) with the
\* label of a registered body for target returns a dictionary with the one
\* key target, and without target one with exactly one key for every body
\* of the Simulation; every key holds one entry, at the clock the copy has
\* after it was advanced to time.
C16_PredictionShape ==
    (/\ last.op = "get_prediction"
     /\ (last.target = "" \/ Registered(last.obj, last.target)))
        => /\ last.raised = ""
           /\ IF last.target # ""
              THEN DOMAIN last.result = {last.target}
              ELSE /\ Cardinality(DOMAIN last.result) = Len(particles(last.obj))
                   /\ \A i \in 1..Len(particles(last.obj)) :
                         Label(last.obj, i) \in DOMAIN last.result
           /\ \A n \in DOMAIN last.result : DOMAIN last.result[n] = {last.time}

\* C18 (copy keeps the primary designation): the Simulation copy() returns
\* has a primary exactly when the Simulation copied has one.
C18_CopyKeepsPrimary ==
    [][last'.op = "copy"
        => \A c \in DOMAIN objs' \ DOMAIN objs :
              (objs'[c].primary # <<>>) <=> (objs[last'.obj].primary # <<>>)]_vars

\* What a Simulation object is to a caller, in a given heap.
Whole(self, h, g) ==
    [name |-> self.name, clock |-> h[self.sim].t, bodies |-> h[self.sim].particles,
     registry |-> g[self.particles], primary |-> self.primary]

C14_UnnamedNotSaved ==
    [][\A o \in DOMAIN objs :
        (objs[o].name = "" /\ last'.obj = o /\ last'.op \in Mutators \cup {"save"})
            => /\ files' = files
               /\ last'.op = "save" => last'.raised # ""]_vars

\* C14's case: save() was called on a Simulation without a name that holds
\* a body, and it raised.
C14_Witness ==
    /\ last.op = "save"
    /\ objs[last.obj].name = ""
    /\ last.raised # ""
    /\ Len(particles(last.obj)) > 0
    /\ files = EmptyDict

\* The Simulation a file holds.
Stored(p) ==
    LET l == pickle_load(files[p], "F")
    IN  Whole(l.obj, "F" :> l.rsim, "F" :> l.regs)

\* C17 (persisted state tracks the live state): between requests, when the
\* current Simulation has a name, the file of that name holds a Simulation
\* with the clock, bodies, registry and primary of the current one.
C17_SlotTracksLive ==
    objs["S"].name # ""
        => /\ join(objs["S"].name) \in DOMAIN files
           /\ Stored(join(objs["S"].name)) = Whole(objs["S"], rsim, regs)

\* C17's case: the current Simulation was created, got two bodies, was
\* integrated to a later time, and the file holds it so.
C17_Witness ==
    /\ resp.route = "integrate" /\ resp.status = "success"
    /\ objs["S"].name # ""
    /\ Len(particles("S")) = 2
    /\ time("S") > 0
    /\ files[objs["S"].path]._sim.t = time("S")

\* C13 (load of a name never saved): a load request for a name whose file
\* no save has written, whether or not the directory of that name exists,
\* is answered with an error; Simulation.load has raised when the name was
\* not empty; the current Simulation, the directories and the files are
\* as they were.
C13_LoadNeverSaved ==
    [][(/\ resp'.route = "load"
        /\ "name" \in DOMAIN resp'.data
        /\ join(resp'.data["name"]) \notin DOMAIN files)
            => /\ resp'.status = "error"
               /\ resp'.data["name"] # ""
                    => last'.op = "load" /\ last'.raised = "FileNotFoundError"
               /\ UNCHANGED <<objs, rsim, regs, dirs, files>>]_vars

\* C13's case: the current Simulation has a name and a body, and a load
\* request for another name, whose directory exists and holds no file, was
\* answered with an error.
C13_Witness ==
    /\ resp.route = "load" /\ resp.status = "error"
    /\ last.op = "load" /\ last.raised = "FileNotFoundError"
    /\ DirOf(join(last.name)) \in dirs
    /\ join(last.name) \notin DOMAIN files
    /\ objs["S"].name # ""
    /\ objs["S"].name # last.name
    /\ Len(particles("S")) > 0

CoreRoutes ==
    {"add_primary", "add_object", "add_from_orbital_elements", "integrate",
     "get_trajectory"}

\* C19 (no mutation before create or load): while the current Simulation
\* is the one without a name, every add_primary, add_object,
\* add_from_orbital_elements, integrate and get_trajectory request is
\* answered with an error; the Simulation is empty at clock 0 and stays
\* so, and no file is written.
C19_NoMutationBeforeCreate ==
    [][(objs["S"].name = "" /\ resp'.route \in CoreRoutes)
            => /\ resp'.status = "error"
               /\ Len(particles("S")) = 0 /\ time("S") = 0
               /\ UNCHANGED <<objs, rsim, regs, files>>]_vars

\* C19's case: a well-formed add_object request was refused while the
\* current Simulation has no name, with a saved Simulation in the files.
C19_Witness ==
    /\ resp.route = "add_object" /\ resp.status = "error"
    /\ {"m", "hash"} \subseteq DOMAIN resp.data
    /\ objs["S"].name = ""
    /\ files # EmptyDict

\* C20 (create does not destroy saved simulations): a create request with
\* a name whose file holds a saved Simulation leaves that file as it was.
C20_CreateKeepsSaved ==
    [][(/\ resp'.route = "create"
        /\ "name" \in DOMAIN resp'.data
        /\ join(resp'.data["name"]) \in DOMAIN files)
            => /\ join(resp'.data["name"]) \in DOMAIN files'
               /\ files'[join(resp'.data["name"])] =
                     files[join(resp'.data["name"])]]_vars

====
